---------------------------- MODULE Spec2Model ----------------------------
(*
  Verification model of multidevice/send.go: Client.SendMessage and the
  helpers it drives (sendGroup, sendDM, marshalMessage, GetGroupInfo,
  GetUSyncDevices, appendDeviceIdentityNode, encryptMessageForDevices,
  encryptMessageForDevice, participantListHashV2).

  One SendMessage call is stepped through its code blocks by pc.  The
  collaborators the file only calls (the IQ transport, the protobuf
  marshaller, the signal session store and ciphers, fetchPreKeys, sendNode)
  answer nondeterministically; every answer and every call is appended to
  the history variable trace.

  Spec is one SendMessage call.  SpecUSync, SpecGroupInfo and SpecHash apply
  GetUSyncDevices, GetGroupInfo and participantListHashV2 to every input up
  to the bounds; SpecConcurrent interleaves the steps of
  encryptMessageForDevice of several calls on one session store.
*)
EXTENDS Integers, Sequences, FiniteSets, TLC

(***************************************************************************)
(* Bounds of the model                                                     *)
(***************************************************************************)
\* longest device list handed to encryptMessageForDevices
MaxFanout == 3
\* most participants of a group a message is sent to
MaxParticipants == 1
\* size of a usync response: user entries plus device entries
MaxRespWeight == 5
\* children of the group element of a group-info response
MaxChildren == 2
\* longest participant list handed to participantListHashV2
MaxHashLen == 3
\* SendMessage calls running concurrently on one client
MaxCalls == 2

(***************************************************************************)
(* Program constants                                                       *)
(***************************************************************************)
\* byte(deviceID): a device index is one byte wide
ByteRange == 256

(***************************************************************************)
(* Addresses                                                               *)
(***************************************************************************)
Users == {"alice", "bob"}
\* device ids a directory response may carry; ByteRange does not fit a byte
RespDeviceIds == {0, 1, ByteRange}

\* waBinary.NewADJID(user, 0, device)
NewADJID(user, device) == [user |-> user, device |-> device]

\* cli.Session.ID, the sender's own registered address
OwnID == NewADJID("alice", 0)
NoJID == [user |-> "", device |-> 0]

\* the message recipients: a user, the sender's own user, a group
GroupServer == "g.us"
DefaultUserServer == "s.whatsapp.net"
Recipients ==
    {[user |-> u, server |-> DefaultUserServer, AD |-> ad] : u \in Users, ad \in BOOLEAN}
    \cup {[user |-> "group", server |-> GroupServer, AD |-> ad] : ad \in BOOLEAN}

(***************************************************************************)
(* Sequence helpers                                                        *)
(***************************************************************************)
Range(s) == {s[i] : i \in DOMAIN s}

RECURSIVE SeqsOfLen(_, _)
SeqsOfLen(S, n) ==
    IF n = 0 THEN {<<>>}
    ELSE {<<x>> \o t : x \in S, t \in SeqsOfLen(S, n - 1)}

SeqsUpTo(S, n) == UNION {SeqsOfLen(S, k) : k \in 0..n}

RECURSIVE CountIn(_, _)
CountIn(s, x) ==
    IF s = <<>> THEN 0
    ELSE (IF Head(s) = x THEN 1 ELSE 0) + CountIn(Tail(s), x)

(***************************************************************************)
(* Directory (usync) responses                                             *)
(***************************************************************************)
\* a <device> child of a device-list: ok is "the tag is device and the id
\* attribute parses as an integer" (line 318-319)
DeviceEntries ==
    {[ok |-> TRUE, id |-> i] : i \in RespDeviceIds} \cup {[ok |-> FALSE, id |-> 1]}

\* a child of <list>: ok is "the tag is user and the jid attribute is a JID"
\* (line 308-309); devices is "a devices child with a device-list child is
\* present" (line 312-314); devs are the children of the device-list
UserEntry(ok, user, devices, devs) ==
    [ok |-> ok, user |-> user, devices |-> devices, devs |-> devs]

\* the entries a response starts a user with: a well-formed one per user, one
\* that is no user element, one without the devices structure
NewUserEntries ==
    {UserEntry(TRUE, u, TRUE, <<>>) : u \in Users}
    \cup {UserEntry(FALSE, "bob", TRUE, <<>>), UserEntry(TRUE, "bob", FALSE, <<>>)}

\* the answer of sendIQ to the usync query: iq is the error of sendIQ, usync
\* and list say whether those elements are present, users are list's children
USyncResponse(iq, usync, list, users) ==
    [iq |-> iq, usync |-> usync, list |-> list, users |-> users]

NoResponse == USyncResponse("none", FALSE, FALSE, <<>>)

\* the responses that carry no list
FailedResponses ==
    {USyncResponse("err", FALSE, FALSE, <<>>),
     USyncResponse("nil", FALSE, FALSE, <<>>),
     USyncResponse("nil", TRUE, FALSE, <<>>)}

RECURSIVE WeightOf(_)
\* the size of a list of user entries: its entries plus their device entries
WeightOf(users) ==
    IF users = <<>> THEN 0
    ELSE 1 + Len(Head(users).devs) + WeightOf(Tail(users))

\* the directory the sends run against: the devices registered for each user
Registered == {NewADJID("alice", 0), NewADJID("alice", 1), NewADJID("bob", 0)}

\* the well-formed responses that list registered devices, one user entry for
\* each device listed
ListedResponses ==
    {USyncResponse("nil", TRUE, TRUE, us) :
        us \in SeqsUpTo({UserEntry(TRUE, d.user, TRUE, <<[ok |-> TRUE, id |-> d.device]>>) :
                            d \in Registered}, MaxFanout)}

\* byte(deviceID), line 322
ToByte(n) == n % ByteRange

\* a slip: the sender's own address is not filtered out
KeepDeviceWithSelf(deviceJID, ignorePrimary) ==
    deviceJID.device > 0 \/ ~ignorePrimary

\* line 323: the condition under which a device address is appended
KeepDevice(deviceJID, ignorePrimary) ==
    (deviceJID.device > 0 \/ ~ignorePrimary) /\ deviceJID # OwnID

RECURSIVE DevicesOfUser(_, _, _)
\* the inner loop, lines 317-326
DevicesOfUser(user, devs, ignorePrimary) ==
    IF devs = <<>> THEN <<>>
    ELSE LET device == Head(devs)
             deviceJID == NewADJID(user, ToByte(device.id))
             rest == DevicesOfUser(user, Tail(devs), ignorePrimary)
         IN  IF ~device.ok THEN rest
             ELSE IF KeepDevice(deviceJID, ignorePrimary)
                  THEN <<deviceJID>> \o rest
                  ELSE rest

RECURSIVE DevicesOfList(_, _)
\* the outer loop, lines 307-327
DevicesOfList(users, ignorePrimary) ==
    IF users = <<>> THEN <<>>
    ELSE LET user == Head(users)
             rest == DevicesOfList(Tail(users), ignorePrimary)
         IN  IF ~user.ok \/ ~user.devices THEN rest
             ELSE DevicesOfUser(user.user, user.devs, ignorePrimary) \o rest

\* GetUSyncDevices on the response res of its query, lines 294-329
GetUSyncDevices(res, ignorePrimary) ==
    IF res.iq # "nil"
    THEN [err |-> "failed to send usync query", devices |-> <<>>]
    ELSE IF ~res.usync
    THEN [err |-> "unexpected children in response to usync query", devices |-> <<>>]
    ELSE IF ~res.list
    THEN [err |-> "missing list inside usync tag", devices |-> <<>>]
    ELSE [err |-> "nil", devices |-> DevicesOfList(res.users, ignorePrimary)]

(***************************************************************************)
(* Group metadata responses                                                *)
(***************************************************************************)
\* a child of the <group> element: a participant whose jid attribute parses
\* (jid is the user), one whose jid does not parse (AttrGetter.JID yields the
\* empty JID and records the error), or an element of another tag
GroupChildren ==
    {[tag |-> "participant", jid |-> u, ok |-> TRUE] : u \in Users}
    \cup {[tag |-> "participant", jid |-> "", ok |-> FALSE],
          [tag |-> "description", jid |-> "", ok |-> FALSE],
          [tag |-> "announcement", jid |-> "", ok |-> TRUE],
          [tag |-> "locked", jid |-> "", ok |-> TRUE],
          [tag |-> "unknown", jid |-> "", ok |-> TRUE]}

\* the answer of sendIQ to the w:g2 query: iq is the error of sendIQ, error
\* and group say whether those elements are present
GroupInfoResponse(iq, error, group, children) ==
    [iq |-> iq, error |-> error, group |-> group, children |-> children]

GroupInfoResponses ==
    {GroupInfoResponse("err", FALSE, FALSE, <<>>),
     GroupInfoResponse("nil", TRUE, FALSE, <<>>),
     GroupInfoResponse("nil", FALSE, FALSE, <<>>)}
    \cup {GroupInfoResponse("nil", e, TRUE, cs) :
             e \in BOOLEAN, cs \in SeqsUpTo(GroupChildren, MaxChildren)}

NoGroupResponse == GroupInfoResponse("none", FALSE, FALSE, <<>>)

RECURSIVE ParticipantsOf(_)
\* the loop of lines 231-259: one participant per participant child
ParticipantsOf(children) ==
    IF children = <<>> THEN <<>>
    ELSE (IF Head(children).tag = "participant" THEN <<Head(children).jid>> ELSE <<>>)
         \o ParticipantsOf(Tail(children))

\* what GetGroupInfo returns: the error, whether the group pointer is
\* non-nil, and the group's Participants
GroupInfoResult(err, group, participants) ==
    [err |-> err, group |-> group, participants |-> participants]

\* a slip: the group element is looked for before the error element
GetGroupInfoGroupFirst(res) ==
    IF res.iq # "nil"
    THEN GroupInfoResult("failed to request group info", FALSE, <<>>)
    ELSE IF res.group
    THEN GroupInfoResult("nil", TRUE, ParticipantsOf(res.children))
    ELSE IF res.error
    THEN GroupInfoResult("group info request returned error", FALSE, <<>>)
    ELSE GroupInfoResult("group info request didn't return group info", FALSE, <<>>)

\* GetGroupInfo on the response res of its query, lines 205-261
GetGroupInfo(res) ==
    IF res.iq # "nil"
    THEN GroupInfoResult("failed to request group info", FALSE, <<>>)
    ELSE IF res.error
    THEN GroupInfoResult("group info request returned error", FALSE, <<>>)
    ELSE IF ~res.group
    THEN GroupInfoResult("group info request didn't return group info", FALSE, <<>>)
    ELSE GroupInfoResult("nil", TRUE, ParticipantsOf(res.children))

\* no GetGroupInfo call has returned
NoGroupInfo == GroupInfoResult("none", FALSE, <<>>)

(***************************************************************************)
(* participantListHashV2                                                   *)
(***************************************************************************)
\* a string is the sequence of its characters; part.FullJID.String() (line
\* 102) of a participant address: user@server, the empty address giving ""
JIDString(user) ==
    CASE user = "alice" -> <<"a", "@", "s">>
      [] user = "bob" -> <<"b", "@", "s">>
      [] OTHER -> <<>>

Strings(jids) == [i \in DOMAIN jids |-> JIDString(jids[i])]

\* the byte of a character
CharRank(c) == CASE c = "@" -> 64 [] c = "a" -> 97 [] c = "b" -> 98 [] c = "s" -> 115

RECURSIVE StringLeq(_, _)
\* the order of Go strings: byte-wise, a proper prefix first
StringLeq(x, y) ==
    IF x = <<>> THEN TRUE
    ELSE IF y = <<>> THEN FALSE
    ELSE IF CharRank(Head(x)) # CharRank(Head(y))
         THEN CharRank(Head(x)) < CharRank(Head(y))
         ELSE StringLeq(Tail(x), Tail(y))

RECURSIVE InsertSorted(_, _)
InsertSorted(x, s) ==
    IF s = <<>> THEN <<x>>
    ELSE IF StringLeq(x, Head(s)) THEN <<x>> \o s
    ELSE <<Head(s)>> \o InsertSorted(x, Tail(s))

\* a slip: the strings are hashed in the order given
SortStringsSkipped(s) == s

RECURSIVE SortStrings(_)
\* sort.Strings, line 58
SortStrings(s) ==
    IF s = <<>> THEN <<>> ELSE InsertSorted(Head(s), SortStrings(Tail(s)))

RECURSIVE Join(_)
\* strings.Join(participantJIDs, ""), line 59
Join(strs) == IF strs = <<>> THEN <<>> ELSE Head(strs) \o Join(Tail(strs))

\* lines 57-61: the slice as the call leaves it (sort.Strings sorts the
\* caller's slice in place), and the value returned: the version tag and the
\* encoded digest of the joined sorted strings, the digest being kept as the
\* bytes it is taken of (no two inputs of the model collide)
participantListHashV2(participantJIDs) ==
    [slice |-> SortStrings(participantJIDs),
     hash |-> <<"2:">> \o Join(SortStrings(participantJIDs))]

(***************************************************************************)
(* marshalMessage                                                          *)
(***************************************************************************)
\* lines 174-193; outcome is what proto.Marshal answers: "ok", "msg_err" (the
\* message does not marshal), "dsm_err" (the DeviceSentMessage does not)
marshalMessage(to, outcome) ==
    IF outcome = "msg_err"
    THEN [plaintext |-> "nil", dsmPlaintext |-> "nil", err |-> "failed to marshal message"]
    ELSE IF to.server # GroupServer
    THEN IF outcome = "dsm_err"
         THEN [plaintext |-> "msg", dsmPlaintext |-> "nil",
               err |-> "failed to marshal message (for own devices)"]
         ELSE [plaintext |-> "msg", dsmPlaintext |-> "dsm", err |-> "nil"]
    ELSE [plaintext |-> "msg", dsmPlaintext |-> "nil", err |-> "nil"]

(***************************************************************************)
(* encryptMessageForDevice                                                 *)
(***************************************************************************)
\* the session store: no session, a session whose first message is not yet
\* acknowledged (the cipher emits PREKEY_TYPE), an acknowledged session
SessionStates == {"none", "pending", "acked"}

\* cli.Session.ContainsSession, line 400
ContainsSession(store, jid) == jid \in DOMAIN store /\ store[jid] # "none"

\* the node of lines 417-435
EncNode(to, encType, plaintext) ==
    [jid |-> to, type |-> encType, plaintext |-> plaintext]
NoNode == EncNode(NoJID, "none", "nil")

\* whether ProcessBundle is reached, lines 400-403
ProcessesBundle(store, to, bundle) == ~ContainsSession(store, to) /\ bundle # "nil"

\* lines 398-436: every result the call can have on the store and bundle
\* given: err, the node, isPreKey, the store as the call leaves it, and the
\* calls made on the signal library (processed: ProcessBundle was called,
\* encrypted: cipher.Encrypt was called)
encryptMessageForDevice(store, plaintext, to, bundle) ==
    LET Result(err, type, st, processed, encrypted) ==
            [err |-> err,
             node |-> IF err = "nil" THEN EncNode(to, type, plaintext) ELSE NoNode,
             isPreKey |-> (err = "nil" /\ type = "pkmsg"),
             store |-> st, processed |-> processed, encrypted |-> encrypted]
        Cipher(st, processed) ==
            LET encType == IF st[to] = "pending" THEN "pkmsg" ELSE "msg"
            IN  {Result("cipher encryption failed", "none", st, processed, TRUE),
                 Result("nil", encType, st, processed, TRUE)}
    IN  IF ~ContainsSession(store, to) /\ bundle = "nil"
        THEN {Result("ErrNoSession", "none", store, FALSE, FALSE)}
        ELSE IF ProcessesBundle(store, to, bundle)
        THEN {Result("failed to process prekey bundle", "none", store, TRUE, FALSE)}
             \cup Cipher([store EXCEPT ![to] = "pending"], TRUE)
        ELSE Cipher(store, FALSE)

\* what a node's byte content holds: a ciphertext (kind is its type) of a
\* plaintext, or the marshalled account
Payload(kind, plaintext) == [kind |-> kind, plaintext |-> plaintext]
NoPayload == Payload("none", "nil")

(***************************************************************************)
(* State                                                                   *)
(***************************************************************************)
VARIABLES
    pc,                  \* the code block the call is at
    to, id,              \* SendMessage's arguments (id after line 46-48)
    result,              \* the error SendMessage returned ("nil": none)
    sessions,            \* cli.Session's session store, by device address
    participantsStrings, \* sendGroup's participantsStrings slice
    msgPlaintext,        \* the fanout's msgPlaintext argument
    dsmPlaintext,        \* the fanout's dsmPlaintext argument
    ciphertext,          \* sendGroup's ciphertext (the group cipher's output)
    allDevices,          \* the list GetUSyncDevices returned
    idx,                 \* the position of the running loop
    retryDevices,        \* encryptMessageForDevices' retryDevices
    bundles,             \* fetchPreKeys' answer, by device address
    participantNodes,    \* encryptMessageForDevices' participantNodes
    includeIdentity,     \* encryptMessageForDevices' includeIdentity
    sent,                \* the nodes handed to sendNode
    fetchArgs,           \* the device lists handed to fetchPreKeys
    trace,               \* history: the calls made on the collaborators
    usyncRes,            \* the directory response GetUSyncDevices is applied to
    ignorePrimary,       \* GetUSyncDevices' ignorePrimary argument
    groupRes,            \* the group-info response GetGroupInfo is applied to
    groupReturned,       \* what GetGroupInfo returned on groupRes
    hashInput,           \* the participant strings a caller of the hash holds
    hashCalls,           \* the calls of participantListHashV2: argument, value
    procs                \* concurrent calls of encryptMessageForDevice

vars == <<pc, to, id, result, sessions, participantsStrings, msgPlaintext,
          dsmPlaintext, ciphertext, allDevices, idx, retryDevices, bundles,
          participantNodes, includeIdentity, sent, fetchArgs, trace, usyncRes,
          ignorePrimary, groupRes, groupReturned, hashInput, hashCalls, procs>>

callVars == <<to, id>>
groupVars == <<participantsStrings, ciphertext>>
fanoutVars == <<allDevices, idx, retryDevices, bundles, participantNodes,
                includeIdentity, fetchArgs>>
usyncVars == <<usyncRes, ignorePrimary>>
\* the state of the single-function specifications below
unitVars == <<groupRes, groupReturned, hashInput, hashCalls, procs>>

\* one call made on a collaborator
Ev(op, jid, arg) == [op |-> op, jid |-> jid, arg |-> arg]

NoRecipient == [user |-> "", server |-> "", AD |-> FALSE]

\* the session stores a client can hold; the sender keeps none with itself
SessionStores == {st \in [Registered -> SessionStates] : st[OwnID] = "none"}

InitCommon ==
    /\ to = NoRecipient
    /\ id = ""
    /\ result = "running"
    /\ participantsStrings = <<>>
    /\ msgPlaintext = "nil"
    /\ dsmPlaintext = "nil"
    /\ ciphertext = NoPayload
    /\ allDevices = <<>>
    /\ idx = 1
    /\ retryDevices = <<>>
    /\ bundles = [d \in {} |-> "missing"]
    /\ participantNodes = <<>>
    /\ includeIdentity = FALSE
    /\ sent = <<>>
    /\ fetchArgs = <<>>
    /\ trace = <<>>

\* no single-function specification is running
InitUnit ==
    /\ groupRes = NoGroupResponse
    /\ groupReturned = NoGroupInfo
    /\ hashInput = <<>>
    /\ hashCalls = <<>>
    /\ procs = <<>>

Init ==
    /\ InitCommon
    /\ InitUnit
    /\ pc = "SendMessage"
    /\ sessions \in SessionStores
    /\ usyncRes = NoResponse
    /\ ignorePrimary = FALSE

(***************************************************************************)
(* SendMessage, lines 41-55                                                *)
(***************************************************************************)
MessageIDs == {"", "3EB0"}

\* a slip: the recipient is not checked
AcceptsAnyRecipient(dest) == FALSE

\* line 42
RejectsRecipient(dest) == dest.AD

SendMessage(dest, idArg) ==
    /\ pc = "SendMessage"
    /\ IF RejectsRecipient(dest)
       THEN /\ to' = dest
            /\ id' = idArg
            /\ result' = "message recipient must be non-AD JID"
            /\ pc' = "done"
            /\ UNCHANGED trace
       ELSE /\ to' = dest
            /\ id' = IF idArg = "" THEN "generated" ELSE idArg
            /\ trace' = IF idArg = ""
                        THEN Append(trace, Ev("GenerateMessageID", NoJID, ""))
                        ELSE trace
            /\ pc' = IF dest.server = GroupServer THEN "sendGroup" ELSE "sendDM"
            /\ UNCHANGED result
    /\ UNCHANGED <<sessions, msgPlaintext, dsmPlaintext, groupVars, fanoutVars,
                   sent, usyncVars, unitVars>>

(***************************************************************************)
(* sendGroup, lines 63-109                                                 *)
(***************************************************************************)
\* lines 64-67: the group metadata query
GroupInfoStep ==
    /\ pc = "sendGroup"
    /\ \E res \in GroupInfoResponses :
         LET groupInfo == GetGroupInfo(res)
         IN  /\ Len(groupInfo.participants) <= MaxParticipants
             /\ trace' = trace \o <<Ev("sendIQ", NoJID, "w:g2"),
                                    Ev("GetGroupInfo", NoJID, groupInfo.err)>>
             /\ IF groupInfo.err # "nil"
                THEN /\ result' = "failed to get group info"
                     /\ pc' = "done"
                     /\ UNCHANGED participantsStrings
                ELSE /\ participantsStrings' = Strings(groupInfo.participants)
                     /\ pc' = "sendGroup_marshal"
                     /\ UNCHANGED result
    /\ UNCHANGED <<callVars, sessions, msgPlaintext, dsmPlaintext, ciphertext,
                   fanoutVars, sent, usyncVars, unitVars>>

\* lines 69-72
GroupMarshal ==
    /\ pc = "sendGroup_marshal"
    /\ \E outcome \in {"ok", "msg_err"} :
         LET m == marshalMessage(to, outcome)
         IN  /\ trace' = Append(trace, Ev("Marshal", NoJID, outcome))
             /\ IF m.err # "nil"
                THEN /\ result' = m.err
                     /\ pc' = "done"
                     /\ UNCHANGED msgPlaintext
                ELSE /\ msgPlaintext' = m.plaintext
                     /\ pc' = "sendGroup_cipher"
                     /\ UNCHANGED result
    /\ UNCHANGED <<callVars, sessions, dsmPlaintext, groupVars, fanoutVars,
                   sent, usyncVars, unitVars>>

\* a slip: the fanout is entered with no sender key session created
GroupCipherSkipped ==
    /\ pc = "sendGroup_cipher"
    /\ ciphertext' = Payload("skmsg", msgPlaintext)
    /\ msgPlaintext' = "skd"
    /\ pc' = "usync"
    /\ UNCHANGED <<callVars, result, sessions, dsmPlaintext, participantsStrings,
                   fanoutVars, sent, trace, usyncVars, unitVars>>

\* lines 74-103: the sender key session is created, the distribution message
\* marshalled and the message encrypted with the group cipher; the fanout's
\* plaintext is the distribution message (line 109)
GroupCipher ==
    /\ pc = "sendGroup_cipher"
    /\ \E outcome \in {"create_err", "skd_err", "encrypt_err", "ok"} :
         /\ trace' = trace
                \o <<Ev("GroupSessionBuilder.Create", NoJID, outcome)>>
                \o (IF outcome \in {"encrypt_err", "ok"}
                    THEN <<Ev("GroupCipher.Encrypt", NoJID, msgPlaintext)>>
                    ELSE <<>>)
         /\ IF outcome = "ok"
            THEN /\ ciphertext' = Payload("skmsg", msgPlaintext)
                 /\ msgPlaintext' = "skd"
                 /\ pc' = "usync"
                 /\ UNCHANGED result
            ELSE /\ result' = CASE outcome = "create_err" ->
                                     "failed to create sender key distribution message"
                                [] outcome = "skd_err" ->
                                     "failed to marshal sender key distribution message"
                                [] outcome = "encrypt_err" ->
                                     "failed to encrypt group message"
                 /\ pc' = "done"
                 /\ UNCHANGED <<ciphertext, msgPlaintext>>
    /\ UNCHANGED <<callVars, sessions, dsmPlaintext, participantsStrings,
                   fanoutVars, sent, usyncVars, unitVars>>

(***************************************************************************)
(* sendDM, lines 137-147                                                   *)
(***************************************************************************)
\* lines 138-141
DMMarshal ==
    /\ pc = "sendDM"
    /\ \E outcome \in {"ok", "msg_err", "dsm_err"} :
         LET m == marshalMessage(to, outcome)
         IN  /\ trace' = Append(trace, Ev("Marshal", NoJID, outcome))
             /\ IF m.err # "nil"
                THEN /\ result' = m.err
                     /\ pc' = "done"
                     /\ UNCHANGED <<msgPlaintext, dsmPlaintext>>
                ELSE /\ msgPlaintext' = m.plaintext
                     /\ dsmPlaintext' = m.dsmPlaintext
                     /\ pc' = "usync"
                     /\ UNCHANGED result
    /\ UNCHANGED <<callVars, sessions, groupVars, fanoutVars, sent, usyncVars, unitVars>>

(***************************************************************************)
(* Device resolution, lines 105-108 and 143-146                            *)
(***************************************************************************)
\* what GetUSyncDevices(jids, false) can return over the responses
USyncOutcomes ==
    {GetUSyncDevices(res, FALSE) : res \in FailedResponses \cup ListedResponses}

\* where encryptMessageForDevices goes once the first loop is over (line 366)
AfterFirstPass(retry) == IF Len(retry) > 0 THEN "fetch" ELSE "assemble"

\* a slip: the error of GetUSyncDevices is dropped and the send goes on
ResolveDevicesIgnoringError ==
    /\ pc = "usync"
    /\ \E out \in USyncOutcomes :
         /\ Len(out.devices) <= MaxFanout
         /\ trace' = trace \o <<Ev("sendIQ", NoJID, "usync"),
                                Ev("GetUSyncDevices", NoJID, out.err)>>
         /\ allDevices' = out.devices
         /\ idx' = 1
         /\ pc' = IF out.devices = <<>> THEN AfterFirstPass(<<>>) ELSE "first"
         /\ UNCHANGED result
    /\ UNCHANGED <<callVars, sessions, msgPlaintext, dsmPlaintext, groupVars,
                   retryDevices, bundles, participantNodes, includeIdentity,
                   fetchArgs, sent, usyncVars, unitVars>>

ResolveDevices ==
    /\ pc = "usync"
    /\ \E out \in USyncOutcomes :
         /\ Len(out.devices) <= MaxFanout
         /\ trace' = trace \o <<Ev("sendIQ", NoJID, "usync"),
                                Ev("GetUSyncDevices", NoJID, out.err)>>
         /\ IF out.err # "nil"
            THEN /\ result' = "failed to get device list"
                 /\ pc' = "done"
                 /\ UNCHANGED <<allDevices, idx>>
            ELSE /\ allDevices' = out.devices
                 /\ idx' = 1
                 /\ pc' = IF out.devices = <<>> THEN AfterFirstPass(<<>>) ELSE "first"
                 /\ UNCHANGED result
    /\ UNCHANGED <<callVars, sessions, msgPlaintext, dsmPlaintext, groupVars,
                   retryDevices, bundles, participantNodes, includeIdentity,
                   fetchArgs, sent, usyncVars, unitVars>>

(***************************************************************************)
(* encryptMessageForDevices, lines 344-394                                 *)
(***************************************************************************)
\* a slip: the ordinary plaintext for every device
SelectPlaintextOrdinary(jid, msg, dsm) == msg

\* lines 349-352 and 377-380
SelectPlaintext(jid, msg, dsm) ==
    IF jid.user = OwnID.user /\ dsm # "nil" THEN dsm ELSE msg

\* a slip: every failed first attempt is deferred to the retry pass
DefersToRetryAnyError(err) == err # "nil"

\* line 354: errors.Is(err, ErrNoSession)
DefersToRetry(err) == err = "ErrNoSession"

\* one encryptMessageForDevice call with its plaintext, the calls it made on
\* the session store and the signal library, in their order, then its return
\* in that pass
CallEvents(r, store, jid, pass, plaintext) ==
    <<Ev("encryptMessageForDevice", jid, plaintext),
      Ev("ContainsSession", jid, IF ContainsSession(store, jid) THEN "yes" ELSE "no")>>
    \o (IF r.processed
        THEN <<Ev("ProcessBundle", jid,
                  IF r.err = "failed to process prekey bundle" THEN "err" ELSE "ok")>>
        ELSE <<>>)
    \o (IF r.encrypted THEN <<Ev("Encrypt", jid, plaintext)>> ELSE <<>>)
    \o <<Ev(pass, jid, r.err)>>

\* a slip: the node is appended whatever the attempt returned
AppendEnvelopeAlways(nodes, r) == Append(nodes, r.node)

\* a slip: the node is put in front of the ones collected
AppendEnvelopeInFront(nodes, r) == IF r.err = "nil" THEN <<r.node>> \o nodes ELSE nodes

\* lines 361 and 386, reached when err is nil
AppendEnvelope(nodes, r) == IF r.err = "nil" THEN Append(nodes, r.node) ELSE nodes

\* one iteration of the loop of lines 348-365
FirstPass ==
    /\ pc = "first"
    /\ idx <= Len(allDevices)
    /\ LET jid == allDevices[idx]
           plaintext == SelectPlaintext(jid, msgPlaintext, dsmPlaintext)
       IN  \E r \in encryptMessageForDevice(sessions, plaintext, jid, "nil") :
             LET retry == IF DefersToRetry(r.err)
                          THEN Append(retryDevices, jid)
                          ELSE retryDevices
             IN  /\ sessions' = r.store
                 /\ trace' = trace \o CallEvents(r, sessions, jid, "first", plaintext)
                 /\ retryDevices' = retry
                 /\ participantNodes' = AppendEnvelope(participantNodes, r)
                 /\ includeIdentity' = (includeIdentity \/ r.isPreKey)
                 /\ idx' = idx + 1
                 /\ pc' = IF idx < Len(allDevices) THEN "first"
                          ELSE AfterFirstPass(retry)
    /\ UNCHANGED <<callVars, result, msgPlaintext, dsmPlaintext, groupVars,
                   allDevices, bundles, fetchArgs, sent, usyncVars, unitVars>>

\* what fetchPreKeys answers for one device: a bundle, an error, or no entry
\* (the zero response: neither error nor bundle)
BundleResponses == {"bundle", "err", "missing"}

\* a slip: a failed fetchPreKeys is returned to the caller as the send's error
FetchPreKeysAborting ==
    /\ pc = "fetch"
    /\ fetchArgs' = Append(fetchArgs, retryDevices)
    /\ trace' = Append(trace, Ev("fetchPreKeys", NoJID, ""))
    /\ \/ /\ pc' = "done"
          /\ result' = "failed to fetch prekeys"
          /\ UNCHANGED <<bundles, idx>>
       \/ \E answer \in [Range(retryDevices) -> BundleResponses] :
            /\ bundles' = answer
            /\ idx' = 1
            /\ pc' = "retry"
            /\ UNCHANGED result
    /\ UNCHANGED <<callVars, sessions, msgPlaintext, dsmPlaintext,
                   groupVars, allDevices, retryDevices, participantNodes,
                   includeIdentity, sent, usyncVars, unitVars>>

\* lines 366-370: one fetchPreKeys call for the whole retry list
FetchPreKeys ==
    /\ pc = "fetch"
    /\ fetchArgs' = Append(fetchArgs, retryDevices)
    /\ trace' = Append(trace, Ev("fetchPreKeys", NoJID, ""))
    /\ \/ /\ pc' = "assemble"               \* err != nil, line 368-369
          /\ UNCHANGED <<bundles, idx>>
       \/ \E answer \in [Range(retryDevices) -> BundleResponses] :
            /\ bundles' = answer
            /\ idx' = 1
            /\ pc' = "retry"
    /\ UNCHANGED <<callVars, result, sessions, msgPlaintext, dsmPlaintext,
                   groupVars, allDevices, retryDevices, participantNodes,
                   includeIdentity, sent, usyncVars, unitVars>>

\* one iteration of the loop of lines 371-390
RetryPass ==
    /\ pc = "retry"
    /\ idx <= Len(retryDevices)
    /\ LET jid == retryDevices[idx]
           resp == bundles[jid]
           plaintext == SelectPlaintext(jid, msgPlaintext, dsmPlaintext)
           bundle == IF resp = "bundle" THEN "bundle" ELSE "nil"
       IN  /\ IF resp = "err"                 \* lines 373-376
              THEN /\ trace' = Append(trace, Ev("fetchFailed", jid, ""))
                   /\ UNCHANGED <<sessions, participantNodes, includeIdentity>>
              ELSE \E r \in encryptMessageForDevice(sessions, plaintext, jid, bundle) :
                     /\ sessions' = r.store
                     /\ trace' = trace \o CallEvents(r, sessions, jid, "retry", plaintext)
                     /\ participantNodes' = AppendEnvelope(participantNodes, r)
                     /\ includeIdentity' = (includeIdentity \/ r.isPreKey)
           /\ idx' = idx + 1
           /\ pc' = IF idx < Len(retryDevices) THEN "retry" ELSE "assemble"
    /\ UNCHANGED <<callVars, result, msgPlaintext, dsmPlaintext, groupVars,
                   allDevices, retryDevices, bundles, fetchArgs, sent, usyncVars, unitVars>>

(***************************************************************************)
(* Node assembly and dispatch, lines 111-134 and 149-171                   *)
(***************************************************************************)
Child(tag, nodes, content) == [tag |-> tag, nodes |-> nodes, content |-> content]

\* a slip: the group node is built like a direct one, without phash
GroupNodeUnhashed(msgID, dest, phash, nodes, groupCiphertext) ==
    [attrs |-> {"id", "type", "to"},
     id |-> msgID, to |-> dest, phash |-> <<>>,
     content |-> <<Child("participants", nodes, NoPayload),
                   Child("enc", <<>>, groupCiphertext)>>]

\* lines 111-123
GroupNode(msgID, dest, phash, nodes, groupCiphertext) ==
    [attrs |-> {"id", "type", "to", "phash"},
     id |-> msgID, to |-> dest, phash |-> phash,
     content |-> <<Child("participants", nodes, NoPayload),
                   Child("enc", <<>>, groupCiphertext)>>]

\* lines 149-160
DMNode(msgID, dest, nodes) ==
    [attrs |-> {"id", "type", "to"},
     id |-> msgID, to |-> dest, phash |-> <<>>,
     content |-> <<Child("participants", nodes, NoPayload)>>]

\* lines 337-340
appendDeviceIdentityNode(node) ==
    [node EXCEPT !.content = Append(@, Child("device-identity", <<>>, Payload("identity", "account")))]

\* a slip: the identity is attached to every node
NeedsIdentityAlways(flag) == TRUE

\* lines 124 and 161
NeedsIdentity(flag) == flag

\* lines 111-134 and 149-171; outcome is what the collaborators answer:
\* "identity_err" (the account does not marshal, line 333-336), "send_err"
\* (sendNode fails), "ok"
AssembleAndSend ==
    /\ pc = "assemble"
    /\ LET isGroup == to.server = GroupServer
           hashed == participantListHashV2(participantsStrings)
           node == IF isGroup
                   THEN GroupNode(id, to, hashed.hash, participantNodes, ciphertext)
                   ELSE DMNode(id, to, participantNodes)
           withIdentity == IF NeedsIdentity(includeIdentity)
                           THEN appendDeviceIdentityNode(node)
                           ELSE node
       IN  /\ participantsStrings' =
                  IF isGroup THEN hashed.slice ELSE participantsStrings
           /\ \E outcome \in {"identity_err", "send_err", "ok"} :
                /\ outcome = "identity_err" => NeedsIdentity(includeIdentity)
                /\ IF outcome = "identity_err"
                   THEN /\ result' = "failed to marshal device identity"
                        /\ UNCHANGED <<sent, trace>>
                   ELSE /\ sent' = Append(sent, withIdentity)
                        /\ trace' = Append(trace, Ev("sendNode", NoJID, outcome))
                        /\ result' = IF outcome = "ok" THEN "nil"
                                     ELSE "failed to send message node"
    /\ pc' = "done"
    /\ UNCHANGED <<callVars, sessions, msgPlaintext, dsmPlaintext, ciphertext,
                   fanoutVars, usyncVars, unitVars>>

Next ==
    \/ \E dest \in Recipients, idArg \in MessageIDs : SendMessage(dest, idArg)
    \/ GroupInfoStep
    \/ GroupMarshal
    \/ GroupCipher
    \/ DMMarshal
    \/ ResolveDevices
    \/ FirstPass
    \/ FetchPreKeys
    \/ RetryPass
    \/ AssembleAndSend

Spec == Init /\ [][Next]_vars

(***************************************************************************)
(* GetUSyncDevices on its own: the server composes a response, entry by    *)
(* entry, and the function is applied to it with either ignorePrimary      *)
(***************************************************************************)
InitUSync ==
    /\ InitCommon
    /\ InitUnit
    /\ pc = "usync_response"
    /\ sessions = [d \in Registered |-> "none"]
    /\ usyncRes \in FailedResponses \cup {USyncResponse("nil", TRUE, TRUE, <<>>)}
    /\ ignorePrimary = FALSE

\* the response gains a child of <list>
ServerAddsUser(entry) ==
    /\ pc = "usync_response"
    /\ usyncRes.list
    /\ WeightOf(usyncRes.users) < MaxRespWeight
    /\ usyncRes' = [usyncRes EXCEPT !.users = Append(@, entry)]
    /\ UNCHANGED <<pc, callVars, result, sessions, msgPlaintext, dsmPlaintext,
                   groupVars, fanoutVars, sent, trace, ignorePrimary, unitVars>>

\* the last user's device-list gains a child
ServerAddsDevice(device) ==
    /\ pc = "usync_response"
    /\ usyncRes.users # <<>>
    /\ usyncRes.users[Len(usyncRes.users)].devices
    /\ WeightOf(usyncRes.users) < MaxRespWeight
    /\ usyncRes' = [usyncRes EXCEPT
                       !.users[Len(usyncRes.users)].devs = Append(@, device)]
    /\ UNCHANGED <<pc, callVars, result, sessions, msgPlaintext, dsmPlaintext,
                   groupVars, fanoutVars, sent, trace, ignorePrimary, unitVars>>

\* lines 294-329 on the response composed
GetUSyncDevicesCall(ignore) ==
    /\ pc = "usync_response"
    /\ LET out == GetUSyncDevices(usyncRes, ignore)
       IN  /\ allDevices' = out.devices
           /\ result' = out.err
    /\ ignorePrimary' = ignore
    /\ pc' = "usync_returned"
    /\ UNCHANGED <<callVars, sessions, msgPlaintext, dsmPlaintext, groupVars,
                   idx, retryDevices, bundles, participantNodes, includeIdentity,
                   fetchArgs, sent, trace, usyncRes, unitVars>>

NextUSync ==
    \/ \E entry \in NewUserEntries : ServerAddsUser(entry)
    \/ \E device \in DeviceEntries : ServerAddsDevice(device)
    \/ \E ignore \in BOOLEAN : GetUSyncDevicesCall(ignore)

SpecUSync == InitUSync /\ [][NextUSync]_vars

(***************************************************************************)
(* GetGroupInfo on its own: the server composes a response, child by       *)
(* child, and the function is applied to it                                *)
(***************************************************************************)
InitGroupInfo ==
    /\ InitCommon
    /\ pc = "group_response"
    /\ sessions = [d \in Registered |-> "none"]
    /\ usyncRes = NoResponse
    /\ ignorePrimary = FALSE
    /\ groupRes \in {GroupInfoResponse("err", FALSE, FALSE, <<>>)}
                      \cup {GroupInfoResponse("nil", e, g, <<>>) : e, g \in BOOLEAN}
    /\ groupReturned = NoGroupInfo
    /\ hashInput = <<>>
    /\ hashCalls = <<>>
    /\ procs = <<>>

\* the group element of the response gains a child
ServerAddsChild(child) ==
    /\ pc = "group_response"
    /\ groupRes.group
    /\ Len(groupRes.children) < MaxChildren
    /\ groupRes' = [groupRes EXCEPT !.children = Append(@, child)]
    /\ UNCHANGED <<pc, callVars, result, sessions, msgPlaintext, dsmPlaintext,
                   groupVars, fanoutVars, sent, trace, usyncVars, groupReturned,
                   hashInput, hashCalls, procs>>

\* lines 205-261 on the response composed
GetGroupInfoCall ==
    /\ pc = "group_response"
    /\ groupReturned' = GetGroupInfo(groupRes)
    /\ pc' = "group_returned"
    /\ UNCHANGED <<callVars, result, sessions, msgPlaintext, dsmPlaintext,
                   groupVars, fanoutVars, sent, trace, usyncVars, groupRes,
                   hashInput, hashCalls, procs>>

NextGroupInfo ==
    \/ \E child \in GroupChildren : ServerAddsChild(child)
    \/ GetGroupInfoCall

SpecGroupInfo == InitGroupInfo /\ [][NextGroupInfo]_vars

(***************************************************************************)
(* participantListHashV2 on its own: a caller holds the participant        *)
(* strings in some order in its slice and calls the function               *)
(***************************************************************************)
\* the participant strings hashed: "", "a", "a@s", "b@s"
HashStrings == {<<>>, <<"a">>, JIDString("alice"), JIDString("bob")}

\* the rearrangements of a sequence
Rearrangements(s) ==
    {t \in SeqsOfLen(Range(s), Len(s)) : \A x \in Range(s) : CountIn(t, x) = CountIn(s, x)}

InitHash ==
    /\ InitCommon
    /\ pc = "hash"
    /\ sessions = [d \in Registered |-> "none"]
    /\ usyncRes = NoResponse
    /\ ignorePrimary = FALSE
    /\ groupRes = NoGroupResponse
    /\ groupReturned = NoGroupInfo
    /\ hashInput \in SeqsUpTo(HashStrings, MaxHashLen)
    /\ hashCalls = <<>>
    /\ procs = <<>>

\* lines 57-61, called on the slice arg: the slice is left sorted; a second
\* call follows, on any order of the same strings
HashCall(arg) ==
    /\ pc \in {"hash", "hashed"}
    /\ pc' = IF pc = "hash" THEN "hashed" ELSE "rehashed"
    /\ LET r == participantListHashV2(arg)
       IN  /\ participantsStrings' = r.slice
           /\ hashCalls' = Append(hashCalls, [arg |-> arg, value |-> r.hash])
    /\ UNCHANGED <<callVars, result, sessions, msgPlaintext, dsmPlaintext,
                   ciphertext, fanoutVars, sent, trace, usyncVars, groupRes,
                   groupReturned, hashInput, procs>>

NextHash == \E arg \in Rearrangements(hashInput) : HashCall(arg)

SpecHash == InitHash /\ [][NextHash]_vars

(***************************************************************************)
(* Concurrent SendMessage calls on one client, each in its fanout at one   *)
(* destination device: the steps of encryptMessageForDevice, lines 398-416,*)
(* of the calls interleave on the one session store.  The file takes no    *)
(* lock; ProcessBundle and cipher.Encrypt last from their begin to their   *)
(* end step.                                                               *)
(***************************************************************************)
\* the devices the concurrent calls send to
Destinations == Registered \ {OwnID}

\* one call: where it is (at): "idle", "line400", "line403", "ProcessBundle"
\* (inside it), "line411", "Encrypt" (inside it), "fetch", "returned"
\* onSession: the store held a session for jid when ProcessBundle was entered
Proc(at, jid, pass, bundle, err) ==
    [at |-> at, jid |-> jid, pass |-> pass, bundle |-> bundle, err |-> err,
     onSession |-> FALSE]

IdleProc == Proc("idle", NoJID, "first", "nil", "none")

InitConcurrent ==
    /\ InitCommon
    /\ pc = "concurrent"
    /\ sessions \in SessionStores
    /\ usyncRes = NoResponse
    /\ ignorePrimary = FALSE
    /\ groupRes = NoGroupResponse
    /\ groupReturned = NoGroupInfo
    /\ hashInput = <<>>
    /\ hashCalls = <<>>
    /\ procs = [p \in 1..MaxCalls |-> IdleProc]

\* what a step of call p leaves alone
ConcurrentFrame ==
    UNCHANGED <<pc, callVars, result, msgPlaintext, dsmPlaintext, groupVars,
                fanoutVars, sent, trace, usyncVars, groupRes, groupReturned,
                hashInput, hashCalls>>

\* the first pass of call p reaches the device jid (line 353, bundle nil)
EntersFirstPass(p, jid) ==
    /\ procs[p].at = "idle"
    /\ procs' = [procs EXCEPT ![p] = Proc("line400", jid, "first", "nil", "none")]
    /\ UNCHANGED sessions
    /\ ConcurrentFrame

\* lines 400-409: the session check and what it decides
ChecksSession(p) ==
    /\ procs[p].at = "line400"
    /\ LET me == procs[p]
           has == ContainsSession(sessions, me.jid)
       IN  procs' = [procs EXCEPT ![p] =
                  IF has THEN [me EXCEPT !.at = "line411"]
                  ELSE IF ProcessesBundle(sessions, me.jid, me.bundle)
                  THEN [me EXCEPT !.at = "line403"]
                  ELSE IF me.pass = "first"
                  THEN [me EXCEPT !.at = "fetch", !.err = "ErrNoSession"]
                  ELSE [me EXCEPT !.at = "returned", !.err = "ErrNoSession"]]
    /\ UNCHANGED sessions
    /\ ConcurrentFrame

\* lines 366-381: the bundle fetch of call p and its retry of the device
FetchesBundle(p, answer) ==
    /\ procs[p].at = "fetch"
    /\ procs' = [procs EXCEPT ![p] =
           IF answer = "err" THEN [@ EXCEPT !.at = "returned", !.err = "fetch failed"]
           ELSE Proc("line400", @.jid, "retry",
                     IF answer = "bundle" THEN "bundle" ELSE "nil", "none")]
    /\ UNCHANGED sessions
    /\ ConcurrentFrame

\* the calls other than p that are inside a signal library call on jid
InLibrary(p, jid) ==
    {q \in DOMAIN procs \ {p} :
        procs[q].jid = jid /\ procs[q].at \in {"ProcessBundle", "Encrypt"}}

\* line 403: builder.ProcessBundle is entered; the call keeps whether the
\* store held a session for the device at that moment
BeginsProcessBundle(p) ==
    /\ procs[p].at = "line403"
    /\ procs' = [procs EXCEPT ![p].at = "ProcessBundle",
                              ![p].onSession = ContainsSession(sessions, procs[p].jid)]
    /\ UNCHANGED sessions
    /\ ConcurrentFrame

\* lines 403-406: builder.ProcessBundle returns; it ran unsynchronized with
\* the library calls of the other calls on the device, in which case the
\* session it leaves is any
EndsProcessBundle(p, ok) ==
    /\ procs[p].at = "ProcessBundle"
    /\ LET jid == procs[p].jid
       IN  IF ok
           THEN /\ \E st \in (IF InLibrary(p, jid) = {} THEN {"pending"}
                               ELSE SessionStates \ {"none"}) :
                     sessions' = [sessions EXCEPT ![jid] = st]
                /\ procs' = [procs EXCEPT ![p].at = "line411"]
           ELSE /\ UNCHANGED sessions
                /\ procs' = [procs EXCEPT ![p].at = "returned",
                                          ![p].err = "failed to process prekey bundle"]
    /\ ConcurrentFrame

\* lines 411-412: cipher.Encrypt is entered
BeginsEncrypt(p) ==
    /\ procs[p].at = "line411"
    /\ procs' = [procs EXCEPT ![p].at = "Encrypt"]
    /\ UNCHANGED sessions
    /\ ConcurrentFrame

\* lines 412-435: cipher.Encrypt returns
EndsEncrypt(p, ok) ==
    /\ procs[p].at = "Encrypt"
    /\ procs' = [procs EXCEPT ![p].at = "returned",
                              ![p].err = IF ok THEN "nil" ELSE "cipher encryption failed"]
    /\ UNCHANGED sessions
    /\ ConcurrentFrame

NextConcurrent ==
    \E p \in 1..MaxCalls :
        \/ \E jid \in Destinations : EntersFirstPass(p, jid)
        \/ ChecksSession(p)
        \/ \E answer \in BundleResponses : FetchesBundle(p, answer)
        \/ BeginsProcessBundle(p)
        \/ \E ok \in BOOLEAN : EndsProcessBundle(p, ok)
        \/ BeginsEncrypt(p)
        \/ \E ok \in BOOLEAN : EndsEncrypt(p, ok)

SpecConcurrent == InitConcurrent /\ [][NextConcurrent]_vars

(***************************************************************************)
(* Reading the history                                                     *)
(***************************************************************************)
\* the positions of trace that hold a call op (on jid, when jid is given)
Calls(op) == {i \in DOMAIN trace : trace[i].op = op}
CallsOn(op, jid) == {i \in Calls(op) : trace[i].jid = jid}

RECURSIVE JidsWhere(_, _, _)
\* the addresses of the events op that carry arg, in their order from t on
JidsWhere(t, op, arg) ==
    IF t = <<>> THEN <<>>
    ELSE (IF Head(t).op = op /\ Head(t).arg = arg THEN <<Head(t).jid>> ELSE <<>>)
         \o JidsWhere(Tail(t), op, arg)

\* the addresses whose attempt succeeded, first pass then retry pass
Succeeded == JidsWhere(trace, "first", "nil") \o JidsWhere(trace, "retry", "nil")

RECURSIVE EnvelopeJids(_)
EnvelopeJids(nodes) ==
    IF nodes = <<>> THEN <<>> ELSE <<Head(nodes).jid>> \o EnvelopeJids(Tail(nodes))

\* the children of a node that carry tag
ChildrenOf(node, tag) == {i \in DOMAIN node.content : node.content[i].tag = tag}

\* the per-device entries of a node's participants container
EntriesOf(node) == node.content[1].nodes

\* the call got past device resolution: the fanout was entered
Resolved == \E i \in Calls("GetUSyncDevices") : trace[i].arg = "nil"

\* the fanout is over
FannedOut == Resolved /\ pc \in {"assemble", "done"}

MarshalErrors ==
    {"failed to marshal message", "failed to marshal message (for own devices)"}

NetworkCalls == {"sendIQ", "fetchPreKeys", "sendNode"}
PairwiseCalls ==
    {"encryptMessageForDevice", "ContainsSession", "ProcessBundle", "Encrypt",
     "first", "retry"}

(***************************************************************************)
(* C1: in one fanout fetchPreKeys is called at most once and ProcessBundle *)
(* at most once for each device address, whatever the device list (the     *)
(* same address twice included) and whether or not the bundle is accepted. *)
(***************************************************************************)
C1_OneFetchOneBundlePerDevice ==
    /\ Len(fetchArgs) <= 1
    /\ Cardinality(Calls("fetchPreKeys")) <= 1
    /\ \A d \in Registered : Cardinality(CallsOn("ProcessBundle", d)) <= 1

(***************************************************************************)
(* C2: the list handed to fetchPreKeys is the list of the devices whose    *)
(* first attempt returned ErrNoSession, a device that had a session when   *)
(* its first attempt ran is not in it, and without such a device there is  *)
(* no fetch.                                                               *)
(***************************************************************************)
NoSessionDevices == JidsWhere(trace, "first", "ErrNoSession")

\* the devices the store held a session for when their first attempt ran
\* (that call's events: ContainsSession, Encrypt, its return)
HadSessionAtFirst ==
    {trace[k].jid : k \in {i \in Calls("ContainsSession") :
        /\ trace[i].arg = "yes"
        /\ i + 2 \in DOMAIN trace
        /\ trace[i + 2].op = "first"}}

C2_FetchExactlyNoSessionDevices ==
    /\ \A k \in DOMAIN fetchArgs :
         /\ fetchArgs[k] = NoSessionDevices
         /\ Range(fetchArgs[k]) \cap HadSessionAtFirst = {}
    /\ (FannedOut \/ pc = "retry") =>
         (Len(fetchArgs) = IF NoSessionDevices = <<>> THEN 0 ELSE 1)

\* a fetch ran in a send where one device had a session and one had none
C2_Witness ==
    /\ pc = "done"
    /\ Len(fetchArgs) = 1
    /\ HadSessionAtFirst # {}
    /\ Len(allDevices) > Len(fetchArgs[1])

(***************************************************************************)
(* C3: a node handed to the transport holds one device-identity child when *)
(* one of its per-device entries is of the first-contact type (the fanout  *)
(* returned includeIdentity), and none otherwise.                          *)
(***************************************************************************)
AnyUsedBundle(nodes) == \E i \in DOMAIN nodes : nodes[i].type = "pkmsg"

C3_IdentityIffUsedBundle ==
    /\ FannedOut => (includeIdentity <=> AnyUsedBundle(participantNodes))
    /\ \A k \in DOMAIN sent :
         Cardinality(ChildrenOf(sent[k], "device-identity")) =
             IF AnyUsedBundle(EntriesOf(sent[k])) THEN 1 ELSE 0

\* a group node and a direct node were sent with the identity: checked on a
\* node whose first-contact entry comes from the retry pass
C3_Witness ==
    /\ Len(sent) = 1
    /\ ChildrenOf(sent[1], "device-identity") # {}
    /\ Calls("ProcessBundle") # {}
    /\ \E i \in DOMAIN EntriesOf(sent[1]) : EntriesOf(sent[1])[i].type = "msg"

(***************************************************************************)
(* C4: no failure of the encryption stage aborts a send.  Once the devices *)
(* are resolved the fanout returns no error; the envelopes are those of    *)
(* the attempts that succeeded, failed attempts leaving none; the node is  *)
(* handed to the transport unless the account fails to marshal (which      *)
(* needs a first-contact envelope), also with no envelope at all; and the  *)
(* send reports what the transport answered.                               *)
(***************************************************************************)
SendResults ==
    {"nil", "failed to send message node", "failed to marshal device identity"}

C4_EncryptionFailuresNeverAbort ==
    /\ (Resolved /\ pc # "done") => result = "running"
    /\ (Resolved /\ pc \in {"fetch", "retry", "assemble", "done"}) =>
          EnvelopeJids(participantNodes) = Succeeded
    /\ (Resolved /\ pc = "done") =>
          /\ result \in SendResults
          /\ result = "failed to marshal device identity" =>
                AnyUsedBundle(participantNodes) /\ sent = <<>>
          /\ result # "failed to marshal device identity" =>
                /\ Len(sent) = 1
                /\ EntriesOf(sent[1]) = participantNodes
                /\ trace[Len(trace)].op = "sendNode"
                /\ result = "nil" <=> trace[Len(trace)].arg = "ok"
          /\ participantNodes = <<>> =>
                Len(sent) = 1 /\ EntriesOf(sent[1]) = <<>>

\* a send reported success with one envelope after one device failed in the
\* cipher, one had its bundle fetch fail
C4_Witness ==
    /\ pc = "done"
    /\ result = "nil"
    /\ Len(allDevices) = 3
    /\ Len(EntriesOf(sent[1])) = 1
    /\ \E i \in Calls("first") : trace[i].arg = "cipher encryption failed"
    /\ Calls("fetchFailed") # {}

(***************************************************************************)
(* C5: a send that returns a marshal error has made no network call: no    *)
(* group-metadata query, no directory query, no bundle fetch, no node sent.*)
(***************************************************************************)
C5_MarshalFailureNoNetwork ==
    (pc = "done" /\ result \in MarshalErrors) =>
        /\ \A i \in DOMAIN trace : trace[i].op \notin NetworkCalls
        /\ sent = <<>>
        /\ fetchArgs = <<>>

(***************************************************************************)
(* C6: a failed group-info or device-resolution query ends the call with   *)
(* that error, with no pairwise encryption, no bundle fetch and no node    *)
(* sent; a node is sent at most once per call, and only after every        *)
(* resolution step of the path succeeded.                                  *)
(***************************************************************************)
ResolutionCalls == {"GetGroupInfo", "GetUSyncDevices"}

FailedResolution ==
    {i \in DOMAIN trace : trace[i].op \in ResolutionCalls /\ trace[i].arg # "nil"}

C6_ResolutionFailureAborts ==
    /\ FailedResolution # {} =>
          /\ pc = "done"
          /\ result = IF trace[Len(trace)].op = "GetGroupInfo"
                      THEN "failed to get group info"
                      ELSE "failed to get device list"
          /\ trace[Len(trace)].op \in ResolutionCalls
          /\ \A i \in DOMAIN trace :
                trace[i].op \notin PairwiseCalls \cup {"fetchPreKeys", "sendNode"}
          /\ sent = <<>> /\ fetchArgs = <<>> /\ participantNodes = <<>>
    /\ result \in {"failed to get group info", "failed to get device list"} =>
          FailedResolution # {}
    /\ Len(sent) <= 1
    /\ Cardinality(Calls("sendNode")) = Len(sent)
    /\ sent # <<>> =>
          /\ Resolved
          /\ to.server = GroupServer =>
                \E i \in Calls("GetGroupInfo") : trace[i].arg = "nil"
          /\ \A i \in DOMAIN trace :
                trace[i].op \in ResolutionCalls \cup {"Marshal"} => i < Len(trace)

\* the directory query of a group send failed, after the group query and the
\* group encryption
C6_Witness ==
    /\ result = "failed to get device list"
    /\ to.server = GroupServer
    /\ Calls("GroupCipher.Encrypt") # {}

(***************************************************************************)
(* C7: a call with a directory-qualified (AD) recipient returns its error  *)
(* at once: no id is generated, no query issued, the session store is not  *)
(* consulted or changed, nothing is sent.                                  *)
(***************************************************************************)
C7_RejectsADRecipient ==
    (pc # "SendMessage" /\ to.AD) =>
        /\ pc = "done"
        /\ result = "message recipient must be non-AD JID"
        /\ trace = <<>>
        /\ id \in MessageIDs
        /\ sent = <<>> /\ fetchArgs = <<>> /\ allDevices = <<>>
        /\ msgPlaintext = "nil"

\* a call without id to an AD group address was rejected
C7_Witness ==
    /\ pc = "done"
    /\ to.AD /\ to.server = GroupServer
    /\ id = ""
    /\ result = "message recipient must be non-AD JID"

(***************************************************************************)
(* C8: on a response that carries the list, GetUSyncDevices returns, with  *)
(* no error, the addresses the well-formed entries list (device ids within *)
(* a byte), each as often as listed, without the sender's own address and, *)
(* with ignorePrimary, without the devices of index 0; the own address is  *)
(* never returned; malformed entries are skipped.                          *)
(***************************************************************************)
\* the (user entry, device entry) positions the response lists well-formed
ListedAt(res) ==
    {<<i, k>> \in (DOMAIN res.users) \X (1..MaxRespWeight + 1) :
        /\ res.users[i].ok /\ res.users[i].devices
        /\ k \in DOMAIN res.users[i].devs
        /\ res.users[i].devs[k].ok}

AddressAt(res, p) == NewADJID(res.users[p[1]].user, res.users[p[1]].devs[p[2]].id)

InByteRange(res) ==
    \A p \in ListedAt(res) : res.users[p[1]].devs[p[2]].id \in 0..(ByteRange - 1)

ExpectedAt(res, ignore) ==
    {p \in ListedAt(res) :
        /\ AddressAt(res, p) # OwnID
        /\ ignore => AddressAt(res, p).device # 0}

\* alice -> [0, 1], bob -> [0]
ExampleUsers ==
    <<UserEntry(TRUE, "alice", TRUE, <<[ok |-> TRUE, id |-> 0], [ok |-> TRUE, id |-> 1]>>),
      UserEntry(TRUE, "bob", TRUE, <<[ok |-> TRUE, id |-> 0]>>)>>

C8_ResolvesListedDevices ==
    (pc = "usync_returned" /\ usyncRes.list) =>
        /\ result = "nil"
        /\ OwnID \notin Range(allDevices)
        /\ InByteRange(usyncRes) =>
              /\ Range(allDevices) =
                    {AddressAt(usyncRes, p) : p \in ExpectedAt(usyncRes, ignorePrimary)}
              /\ Len(allDevices) = Cardinality(ExpectedAt(usyncRes, ignorePrimary))
        /\ (usyncRes.users = ExampleUsers /\ ~ignorePrimary) =>
              allDevices = <<NewADJID("alice", 1), NewADJID("bob", 0)>>

\* the example resolved, the sender being alice/0
C8_Witness ==
    /\ pc = "usync_returned"
    /\ usyncRes.users = ExampleUsers
    /\ ~ignorePrimary
    /\ allDevices = <<NewADJID("alice", 1), NewADJID("bob", 0)>>

(***************************************************************************)
(* C9: a node a group send hands to the transport holds, beside the        *)
(* participants container, one group-level ciphertext entry and a phash    *)
(* attribute; a node of a direct send holds the participants container     *)
(* (and the device identity, if any) alone and no phash.                   *)
(***************************************************************************)
\* the shape of a sent node; groupPayload is what a group-level entry holds
NodeShape(node, groupPayload) ==
    /\ Cardinality(ChildrenOf(node, "participants")) = 1
    /\ node.content[1].tag = "participants"
    /\ IF node.to.server = GroupServer
       THEN /\ "phash" \in node.attrs
            /\ Cardinality(ChildrenOf(node, "enc")) = 1
            /\ \A i \in ChildrenOf(node, "enc") : node.content[i].content = groupPayload
       ELSE /\ "phash" \notin node.attrs
            /\ node.phash = <<>>
            /\ ChildrenOf(node, "enc") = {}
            /\ \A i \in DOMAIN node.content :
                  node.content[i].tag \in {"participants", "device-identity"}

EntryCount(node, d) == CountIn(EnvelopeJids(EntriesOf(node)), d)

\* as claimed: exactly one entry for every device the resolution returned
C10_OneEntryPerResolvedDevice ==
    \A k \in DOMAIN sent :
        sent[k].to.server = GroupServer =>
            /\ \A d \in Range(allDevices) : EntryCount(sent[k], d) = 1
            /\ \A i \in DOMAIN EntriesOf(sent[k]) :
                  /\ EntriesOf(sent[k])[i].jid \in Range(allDevices)
                  /\ EntriesOf(sent[k])[i].plaintext = "skd"

\* as the code has it: one entry for every occurrence of a device in the
\* resolved list whose encryption succeeded (first pass or retry), none for
\* one whose encryption failed
C10_OneEntryPerEncryptedDevice ==
    \A k \in DOMAIN sent :
        sent[k].to.server = GroupServer =>
            /\ EnvelopeJids(EntriesOf(sent[k])) = Succeeded
            /\ \A d \in Range(allDevices) :
                  /\ EntryCount(sent[k], d) <= CountIn(allDevices, d)
                  /\ Cardinality(CallsOn("first", d)) = CountIn(allDevices, d)
            /\ \A i \in DOMAIN EntriesOf(sent[k]) :
                  /\ EntriesOf(sent[k])[i].jid \in Range(allDevices)
                  /\ EntriesOf(sent[k])[i].plaintext = "skd"

\* a group node was sent with an entry for one resolved device and none for
\* another, whose encryption failed
C10_Witness ==
    /\ Len(sent) = 1
    /\ sent[1].to.server = GroupServer
    /\ \E d \in Range(allDevices) : EntryCount(sent[1], d) = 1
    /\ \E d \in Range(allDevices) : EntryCount(sent[1], d) = 0

(***************************************************************************)
(* C11: a device whose first attempt returned ErrNoSession and whose       *)
(* bundle was fetched gets one ProcessBundle and then one further attempt, *)
(* the bundle being processed before the cipher runs; when both succeed    *)
(* the fanout returns one envelope for it, of the first-contact type, and  *)
(* includeIdentity.                                                        *)
(***************************************************************************)
\* the devices the retry pass is through with, their bundle having arrived
RetriedWithBundle ==
    {x \in Range(allDevices) :
        /\ x \in Range(NoSessionDevices)
        /\ x \in DOMAIN bundles
        /\ bundles[x] = "bundle"
        /\ FannedOut}

EnvelopesFor(x) == {i \in DOMAIN participantNodes : participantNodes[i].jid = x}

\* what the claim says of such a device x
EstablishedThenEncryptedOnce(x) ==
    /\ Cardinality(CallsOn("ProcessBundle", x)) = 1
    /\ Cardinality(CallsOn("retry", x)) = 1
    /\ Cardinality(CallsOn("Encrypt", x)) <= 1
    /\ \A b \in CallsOn("ProcessBundle", x) :
          /\ \A f \in CallsOn("first", x) \cup Calls("fetchPreKeys") : f < b
          /\ \A e \in CallsOn("Encrypt", x) : b < e
          /\ \A r \in CallsOn("retry", x) : b < r
          /\ trace[b].arg = "ok" <=> CallsOn("Encrypt", x) # {}
    /\ (\E r \in CallsOn("retry", x) : trace[r].arg = "nil") =>
          /\ Cardinality(EnvelopesFor(x)) = 1
          /\ \A i \in EnvelopesFor(x) : participantNodes[i].type = "pkmsg"
          /\ includeIdentity

\* as claimed, for every device of every list
C11_BundleRetryEstablishesOnce ==
    \A x \in RetriedWithBundle : EstablishedThenEncryptedOnce(x)

\* what holds: the same for the devices the list names once (a device named
\* twice is retried once for each occurrence)
C11_ListedOnceEstablishesOnce ==
    \A x \in RetriedWithBundle :
        CountIn(allDevices, x) = 1 => EstablishedThenEncryptedOnce(x)

\* a device named once was retried with its bundle and got its envelope,
\* beside a device that had a session
C11_ListedOnceWitness ==
    /\ pc = "done"
    /\ Len(allDevices) = 2
    /\ HadSessionAtFirst # {}
    /\ \E x \in RetriedWithBundle :
          /\ CountIn(allDevices, x) = 1
          /\ \E r \in CallsOn("retry", x) : trace[r].arg = "nil"
          /\ EnvelopesFor(x) # {}

(***************************************************************************)
(* C12: in one fanout a device is attempted at most twice: a first attempt *)
(* that fails otherwise than with ErrNoSession is followed by no retry and *)
(* leaves no envelope; a device whose bundle fetch failed is not attempted *)
(* again; a failed second attempt leaves no envelope; a device whose first *)
(* attempt succeeded is not attempted again.                               *)
(***************************************************************************)
\* the returns of the attempts made for d, first pass and retry pass
Attempts(d) == CallsOn("first", d) \cup CallsOn("retry", d)

DroppedErrors == {"cipher encryption failed", "failed to process prekey bundle"}

\* what the claim says of a device d
AttemptedAtMostTwice(d) ==
    /\ Cardinality(Attempts(d)) <= 2
    /\ Cardinality(CallsOn("first", d)) <= 1
    /\ Cardinality(CallsOn("retry", d)) <= 1
    /\ \A f \in CallsOn("first", d) :
          /\ trace[f].arg \in DroppedErrors =>
                CallsOn("retry", d) = {} /\ EnvelopesFor(d) = {}
          /\ trace[f].arg = "nil" =>
                Attempts(d) = {f} /\ Cardinality(EnvelopesFor(d)) = 1
          /\ \A r \in CallsOn("retry", d) :
                f < r /\ trace[f].arg = "ErrNoSession"
    /\ CallsOn("fetchFailed", d) # {} =>
          CallsOn("retry", d) = {} /\ EnvelopesFor(d) = {}
    /\ (Calls("fetchPreKeys") # {} /\ d \notin DOMAIN bundles /\ FannedOut) =>
          CallsOn("retry", d) = {}
    /\ \A r \in CallsOn("retry", d) :
          trace[r].arg # "nil" => EnvelopesFor(d) = {}

\* as claimed, for every device of every list
C12_AtMostTwoAttempts ==
    \A d \in Range(allDevices) : AttemptedAtMostTwice(d)

\* what holds: the same for the devices the list names once (each occurrence
\* of a device named twice has its own first attempt and its own retry)
C12_ListedOnceAtMostTwoAttempts ==
    \A d \in Range(allDevices) :
        CountIn(allDevices, d) = 1 => AttemptedAtMostTwice(d)

\* of two devices one failed in the cipher at once and one failed its second
\* attempt: neither was attempted again, neither has an envelope
C12_ListedOnceWitness ==
    /\ pc = "done"
    /\ Len(allDevices) = 2
    /\ \A d \in Range(allDevices) : CountIn(allDevices, d) = 1
    /\ participantNodes = <<>>
    /\ \E f \in Calls("first") : trace[f].arg \in DroppedErrors
    /\ \E r \in Calls("retry") : trace[r].arg # "nil"

(***************************************************************************)
(* C13: participantListHashV2 returns one value for every rearrangement of *)
(* its input and for every repeated call: the version tag "2:" followed by *)
(* the encoded digest of the strings, sorted in byte order, joined with no *)
(* separator.                                                              *)
(***************************************************************************)
IsSorted(t) == \A i, j \in DOMAIN t : i < j => StringLeq(t[i], t[j])

\* the joined strings of the sorted rearrangements of the input
SortedJoins ==
    {Join(t) : t \in {u \in Rearrangements(hashInput) : IsSorted(u)}}

C13_HashOfSortedJoin ==
    /\ \A k \in DOMAIN hashCalls :
          /\ Head(hashCalls[k].value) = "2:"
          /\ Tail(hashCalls[k].value) \in SortedJoins
    /\ \A k, l \in DOMAIN hashCalls : hashCalls[k].value = hashCalls[l].value
    /\ Cardinality(SortedJoins) = 1

\* two calls on different orders of three different strings, neither sorted,
\* returned the same value
C13_Witness ==
    /\ Len(hashCalls) = 2
    /\ Cardinality(Range(hashInput)) = 3
    /\ hashCalls[1].arg # hashCalls[2].arg
    /\ ~IsSorted(hashCalls[1].arg) /\ ~IsSorted(hashCalls[2].arg)
    /\ hashCalls[1].value = hashCalls[2].value

(***************************************************************************)
(* C14: a call of participantListHashV2 leaves the caller's slice as it    *)
(* was: the same strings in the same order.                                *)
(***************************************************************************)
C14_HashLeavesSliceUnchanged ==
    hashCalls # <<>> => participantsStrings = hashCalls[Len(hashCalls)].arg

(***************************************************************************)
(* C15: no second attempt of the retry pass returns ErrNoSession, whatever *)
(* fetchPreKeys answered for the device (no entry, or an entry with        *)
(* neither error nor bundle, included).                                    *)
(***************************************************************************)
C15_RetryNeverNoSession ==
    \A r \in Calls("retry") : trace[r].arg # "ErrNoSession"

\* what holds: a second attempt made with a bundle does not return it
C15_RetryWithBundleNeverNoSession ==
    \A r \in Calls("retry") :
        (trace[r].jid \in DOMAIN bundles /\ bundles[trace[r].jid] = "bundle") =>
            trace[r].arg # "ErrNoSession"

(***************************************************************************)
(* C16: every attempt of a fanout, first or second, encrypts the self-copy *)
(* plaintext when the device is of the sender's user and a self-copy       *)
(* exists (a direct send), and the ordinary plaintext otherwise; a device  *)
(* has the same plaintext on its retry as on its first attempt; a group    *)
(* send encrypts the self-copy for no device.                              *)
(***************************************************************************)
\* the plaintext the device jid is to get in the running send
VariantFor(jid) ==
    IF to.server = GroupServer THEN "skd"
    ELSE IF jid.user = OwnID.user THEN "dsm" ELSE "msg"

C16_SelfCopyIffOwnUser ==
    /\ \A i \in Calls("encryptMessageForDevice") \cup Calls("Encrypt") :
          trace[i].arg = VariantFor(trace[i].jid)
    /\ \A d \in Registered :
          Cardinality(CallsOn("encryptMessageForDevice", d)) = Cardinality(Attempts(d))
    /\ \A i \in DOMAIN participantNodes :
          participantNodes[i].plaintext = VariantFor(participantNodes[i].jid)
    /\ Resolved =>
          dsmPlaintext = IF to.server = GroupServer THEN "nil" ELSE "dsm"

\* a direct send to bob encrypted the self-copy for alice/1, on its first
\* attempt and on its retry, and the ordinary plaintext for bob/0
C16_Witness ==
    /\ pc = "done"
    /\ to.user = "bob"
    /\ Cardinality(CallsOn("encryptMessageForDevice", NewADJID("alice", 1))) = 2
    /\ \E i \in DOMAIN participantNodes :
          /\ participantNodes[i].jid = NewADJID("alice", 1)
          /\ participantNodes[i].plaintext = "dsm"
    /\ \E i \in DOMAIN participantNodes :
          /\ participantNodes[i].jid = NewADJID("bob", 0)
          /\ participantNodes[i].plaintext = "msg"

(***************************************************************************)
(* C17: a group send creates the sender-key session once, and that and the *)
(* group encryption come before the first pairwise attempt; a direct send  *)
(* makes no call on the group sender-key state.                            *)
(***************************************************************************)
GroupKeyCalls == {"GroupSessionBuilder.Create", "GroupCipher.Encrypt"}

C17_GroupSessionOnceBeforeFanout ==
    /\ Cardinality(Calls("GroupSessionBuilder.Create")) <= 1
    /\ Cardinality(Calls("GroupCipher.Encrypt")) <= 1
    /\ to.server # GroupServer =>
          \A i \in DOMAIN trace : trace[i].op \notin GroupKeyCalls
    /\ (to.server = GroupServer /\ (Resolved \/ pc = "usync" \/ sent # <<>>)) =>
          /\ Cardinality(Calls("GroupSessionBuilder.Create")) = 1
          /\ Cardinality(Calls("GroupCipher.Encrypt")) = 1
          /\ \A c \in Calls("GroupSessionBuilder.Create") :
                /\ trace[c].arg = "ok"
                /\ \A e \in Calls("GroupCipher.Encrypt") : c < e
          /\ \A e \in Calls("GroupCipher.Encrypt"), i \in DOMAIN trace :
                trace[i].op \in PairwiseCalls \cup {"GetUSyncDevices", "fetchPreKeys"}
                    => e < i
    /\ (\E i \in DOMAIN trace : trace[i].op \in PairwiseCalls) =>
          (to.server = GroupServer <=> Calls("GroupSessionBuilder.Create") # {})

\* a group send made two pairwise attempts after its one creation
C17_Witness ==
    /\ pc = "done"
    /\ to.server = GroupServer
    /\ Cardinality(Calls("GroupSessionBuilder.Create")) = 1
    /\ Cardinality(Calls("encryptMessageForDevice")) >= 2
    /\ sent # <<>>

(***************************************************************************)
(* C18: with SendMessage calls running concurrently on one client,         *)
(* ProcessBundle is not entered for a device the session store holds a     *)
(* session for, and does not run while another call encrypts for the same  *)
(* device: from the session check to the return of the cipher a device has *)
(* one call at a time.                                                     *)
(***************************************************************************)
\* the calls that are between the session check and the cipher's return
InSection(jid) ==
    {p \in DOMAIN procs :
        procs[p].jid = jid /\
        procs[p].at \in {"line403", "ProcessBundle", "line411", "Encrypt"}}

C18_EstablishmentExclusive ==
    /\ \A p \in DOMAIN procs : ~procs[p].onSession
    /\ \A p, q \in DOMAIN procs :
          (procs[p].at = "ProcessBundle" /\ procs[q].at = "Encrypt")
              => procs[p].jid # procs[q].jid
    /\ \A jid \in Registered : Cardinality(InSection(jid)) <= 1

\* the first two parts of the claim alone
C18_NoBundleOnSession ==
    \A p \in DOMAIN procs : ~procs[p].onSession

C18_NoBundleDuringEncrypt ==
    \A p, q \in DOMAIN procs :
        (procs[p].at = "ProcessBundle" /\ procs[q].at = "Encrypt")
            => procs[p].jid # procs[q].jid

(***************************************************************************)
(* C19: GetGroupInfo returns an error and no group when the response holds *)
(* an error element (a group element beside it or not) or no group         *)
(* element; otherwise it returns a group and no error, whatever the        *)
(* children of the group element are, and the group's participants are the *)
(* participant children in the order of the response.                      *)
(***************************************************************************)
IsParticipant(child) == child.tag = "participant"

\* the jid attributes, as parsed, of the participant children
ParticipantChildren(children) ==
    LET ps == SelectSeq(children, IsParticipant)
    IN  [i \in DOMAIN ps |-> ps[i].jid]

C19_GroupInfoErrorsAndParticipants ==
    pc = "group_returned" =>
        /\ groupReturned.group <=> groupReturned.err = "nil"
        /\ ~groupReturned.group => groupReturned.participants = <<>>
        /\ groupRes.iq # "nil" => groupReturned.err = "failed to request group info"
        /\ groupRes.iq = "nil" =>
              /\ groupRes.error =>
                    groupReturned.err = "group info request returned error"
              /\ (~groupRes.error /\ ~groupRes.group) =>
                    groupReturned.err = "group info request didn't return group info"
              /\ (~groupRes.error /\ groupRes.group) =>
                    /\ groupReturned.err = "nil"
                    /\ groupReturned.participants = ParticipantChildren(groupRes.children)

\* a group was returned on a response whose children are an unknown element
\* and a participant whose jid does not parse
C19_Witness ==
    /\ pc = "group_returned"
    /\ groupReturned.group
    /\ Len(groupRes.children) = 2
    /\ \E i \in DOMAIN groupRes.children : groupRes.children[i].tag = "unknown"
    /\ \E i \in DOMAIN groupRes.children : ~groupRes.children[i].ok
    /\ Len(groupReturned.participants) = 1

(***************************************************************************)
(* C20: after a fanout over a list of distinct devices every envelope is   *)
(* addressed to a device of the list, no device has two, there are no more *)
(* envelopes than devices, and the envelopes of the first pass, in the     *)
(* order of the list, come before those of the retry pass, in the order of *)
(* the list.                                                               *)
(***************************************************************************)
DistinctDevices == \A i, j \in DOMAIN allDevices : allDevices[i] = allDevices[j] => i = j

PositionOf(d) == CHOOSE i \in DOMAIN allDevices : allDevices[i] = d

\* the devices whose attempt of that pass returned no error
SucceededIn(pass) == {trace[i].jid : i \in {k \in Calls(pass) : trace[k].arg = "nil"}}

C20_EnvelopesOfDistinctDevices ==
    DistinctDevices =>
        /\ \A i \in DOMAIN participantNodes :
              participantNodes[i].jid \in Range(allDevices)
                  \cap (SucceededIn("first") \cup SucceededIn("retry"))
        /\ \A d \in Registered : Cardinality(EnvelopesFor(d)) <= 1
        /\ Len(participantNodes) <= Len(allDevices)
        /\ SucceededIn("first") \cap SucceededIn("retry") = {}
        /\ \A i, j \in DOMAIN participantNodes :
              i < j =>
                LET a == participantNodes[i].jid
                    b == participantNodes[j].jid
                IN  \/ a \in SucceededIn("first") /\ b \in SucceededIn("retry")
                    \/ /\ PositionOf(a) < PositionOf(b)
                       /\ \E pass \in {"first", "retry"} : {a, b} \subseteq SucceededIn(pass)
        /\ FannedOut =>
              \A d \in SucceededIn("first") \cup SucceededIn("retry") :
                  EnvelopesFor(d) # {}

\* the device listed first got its envelope in the retry pass, after the
\* device listed second got its in the first pass
C20_Witness ==
    /\ pc = "done"
    /\ DistinctDevices
    /\ Len(allDevices) = 2
    /\ Len(participantNodes) = 2
    /\ participantNodes[1].jid = allDevices[2]
    /\ participantNodes[2].jid = allDevices[1]

=============================================================================
